---- MODULE Spec2Model ----
(***************************************************************************)
(* Model of sequencer/strategy/txselector/txselector.go: the two           *)
(* TxSelector variants (AcceptAll, Base), the construction of Base from a  *)
(* Config, and the selection loop of Base.SelectTxs driven by the answers  *)
(* of a batch processor.                                                   *)
(***************************************************************************)
EXTENDS Integers, Sequences, FiniteSets, TLC

\* ---------------------------------------------------------------- bounds
NumTxs == 3        \* distinct transactions the pool can hold

\* ---------------------------------------------------------------- values
Calls == {"c1", "c2"}      \* SelectTxs invocations the model has slots for
SeqCalls == {"c1"}         \* the invocation that runs under Spec

Txs == 1..NumTxs           \* types.Transaction values

\* pool.Transaction: a types.Transaction embedded in pool metadata; later
\* transactions of the pool arrived earlier
PoolTx(t) == [Transaction |-> t, ReceivedAt |-> NumTxs - t]

\* the fields of a transaction the sorters look at
Cost(t) == t % 2
Nonce(t) == t

\* tx.Hash().Hex(): the hex string of the hash of the embedded transaction
Hash(t) == <<"0x", t>>

\* Go slices: the nil slice and an allocated slice are different values
NilSlice == [isNil |-> TRUE, elems |-> <<>>]
MakeSlice == [isNil |-> FALSE, elems |-> <<>>]
GoAppend(s, x) == [isNil |-> FALSE, elems |-> Append(s.elems, x)]
GoLen(s) == Len(s.elems)

\* error values: what Error() prints and which sentinels errors.Is matches
NonceAhead == "ErrNonceIsBiggerThanAccountNonce"
CumGas == "ErrInvalidCumulativeGas"
NilErr == [msg |-> "", is |-> {}]
ErrNonceIsBiggerThanAccountNonce ==
  [msg |-> "transaction nonce is bigger than account nonce", is |-> {NonceAhead}]
ErrInvalidCumulativeGas ==
  [msg |-> "cumulative gas is bigger than allowed", is |-> {CumGas}]
InvalidTxErrors == {"invalid transaction"}
\* the errors a processor answers with: an invalid-transaction error, alone
\* or wrapping a sentinel; the two sentinels; an error wrapping both; two
\* errors the selector knows nothing about
Errs ==
  { [msg |-> "invalid transaction", is |-> {}],
    [msg |-> "invalid transaction", is |-> {NonceAhead}],
    [msg |-> "invalid transaction", is |-> {CumGas}],
    ErrNonceIsBiggerThanAccountNonce,
    ErrInvalidCumulativeGas,
    [msg |-> "joined", is |-> {NonceAhead, CumGas}],
    [msg |-> "unexpected A", is |-> {}],
    [msg |-> "unexpected B", is |-> {}] }

\* the result of ProcessTransaction; Failed() reports Err != nil
Results == { [Err |-> e] : e \in Errs \cup {NilErr} }
Failed(result) == result.Err # NilErr

\* Config.TxSorterType and the sorters NewTxSelectorBase chooses from
ByCostAndTime == "bycostandtime"
ByCostAndNonce == "bycostandnonce"
SorterTypes == {ByCostAndTime, ByCostAndNonce, "unrecognized"}
NilSorter == "nil"
NoSelector == [kind |-> "none", TxSorter |-> NilSorter]

\* ---------------------------------------------------------------- helpers
RECURSIVE SeqsOver(_, _)
\* duplicate-free sequences over S of length at most n
SeqsOver(S, n) ==
  IF n = 0 THEN {<<>>}
  ELSE {<<>>} \cup UNION { { <<x>> \o s : s \in SeqsOver(S \ {x}, n - 1) } : x \in S }

Range(s) == { s[i] : i \in 1..Len(s) }

\* the pending slices the pool hands over: no transaction twice (the pool
\* keys its transactions by hash)
PendingInputs == { [i \in 1..Len(s) |-> PoolTx(s[i])] : s \in SeqsOver(Txs, NumTxs) }

\* the processor states a call may start from: a fresh batch, or a batch that
\* already holds a transaction of an earlier call
PriorBatches == {<<>>, <<1>>}

\* the order of a sorter: higher cost first, then earlier arrival
\* (TxSorterByCostAndTime) or lower nonce (TxSorterByCostAndNonce)
Before(sorter, a, b) ==
  \/ Cost(a.Transaction) > Cost(b.Transaction)
  \/ /\ Cost(a.Transaction) = Cost(b.Transaction)
     /\ IF sorter = "TxSorterByCostAndTime"
          THEN a.ReceivedAt < b.ReceivedAt
          ELSE Nonce(a.Transaction) < Nonce(b.Transaction)

\* TxSorter.SortTxs: the pending transactions in the sorter's order, none
\* dropped and none duplicated
RECURSIVE SortTxs(_, _)
SortTxs(sorter, pending) ==
  IF Len(pending) = 0 THEN <<>>
  ELSE LET first == CHOOSE i \in 1..Len(pending) :
                      \A j \in 1..Len(pending) : j # i => Before(sorter, pending[i], pending[j])
           rest == [k \in 1..(Len(pending) - 1) |->
                      IF k < first THEN pending[k] ELSE pending[k + 1]]
       IN <<pending[first]>> \o SortTxs(sorter, rest)

\* batchProcessor.ProcessTransaction: the processor keeps what it applied
ProcessTransaction(batch, t, result) ==
  IF Failed(result) THEN batch ELSE Append(batch, t)

\* ---------------------------------------------------------------- state
VARIABLES
  selector,           \* per call: the TxSelector SelectTxs is invoked on
  cfgType,            \* per call: the Config.TxSorterType it was built from
  pc,                 \* per call: "new", "ready", "acceptloop", "loop", "returned", "panic"
  pendingTxs,         \* per call: the pendingTxs argument
  sortedTxs,          \* per call: sortedTxs of Base.SelectTxs
  idx,                \* per call: position of the range loop (1-based)
  selectedTxs,        \* per call: selectedTxs
  selectedTxsHashes,  \* per call: selectedTxsHashes
  invalidTxsHashes,   \* per call: invalidTxsHashes
  ret,                \* per call: the four returned values
  submitted,          \* per call: the ProcessTransaction calls made, with their results
  applied,            \* the processor's accumulated batch
  appliedAtCall,      \* per call: the processor's batch when SelectTxs was entered
  answers             \* the processor: the results it may give for each transaction

vars == <<selector, cfgType, pc, pendingTxs, sortedTxs, idx, selectedTxs,
          selectedTxsHashes, invalidTxsHashes, ret, submitted, applied,
          appliedAtCall, answers>>

NoRet == [txs |-> NilSlice, hashes |-> NilSlice, invalid |-> NilSlice, err |-> NilErr]

\* the state before any selector is built, whatever the processor
InitCalls ==
  /\ selector = [c \in Calls |-> NoSelector]
  /\ cfgType = [c \in Calls |-> "unset"]
  /\ pc = [c \in Calls |-> "new"]
  /\ pendingTxs = [c \in Calls |-> <<>>]
  /\ sortedTxs = [c \in Calls |-> <<>>]
  /\ idx = [c \in Calls |-> 1]
  /\ selectedTxs = [c \in Calls |-> NilSlice]
  /\ selectedTxsHashes = [c \in Calls |-> NilSlice]
  /\ invalidTxsHashes = [c \in Calls |-> NilSlice]
  /\ ret = [c \in Calls |-> NoRet]
  /\ submitted = [c \in Calls |-> <<>>]
  /\ applied \in PriorBatches
  /\ appliedAtCall = [c \in Calls |-> <<>>]

\* a processor whose answer to a transaction may be any result, and may
\* differ from one submission to the next
Init ==
  /\ InitCalls
  /\ answers = [t \in Txs |-> Results]

\* ---------------------------------------------------------------- construction
\* NewTxSelectorAcceptAll
NewTxSelectorAcceptAll(c) ==
  /\ pc[c] = "new"
  /\ selector' = [selector EXCEPT ![c] = [kind |-> "AcceptAll", TxSorter |-> NilSorter]]
  /\ pc' = [pc EXCEPT ![c] = "ready"]
  /\ UNCHANGED <<cfgType, pendingTxs, sortedTxs, idx, selectedTxs, selectedTxsHashes,
                 invalidTxsHashes, ret, submitted, applied, appliedAtCall, answers>>

\* the switch of NewTxSelectorBase: no default case
SorterFor(type) ==
  CASE type = ByCostAndTime -> "TxSorterByCostAndTime"
    [] type = ByCostAndNonce -> "TxSorterByCostAndNonce"
    [] OTHER -> NilSorter

\* NewTxSelectorBase
NewTxSelectorBase(c) ==
  /\ pc[c] = "new"
  /\ \E type \in SorterTypes :
       /\ cfgType' = [cfgType EXCEPT ![c] = type]
       /\ selector' = [selector EXCEPT ![c] = [kind |-> "Base", TxSorter |-> SorterFor(type)]]
  /\ pc' = [pc EXCEPT ![c] = "ready"]
  /\ UNCHANGED <<pendingTxs, sortedTxs, idx, selectedTxs, selectedTxsHashes,
                 invalidTxsHashes, ret, submitted, applied, appliedAtCall, answers>>

\* ---------------------------------------------------------------- AcceptAll.SelectTxs
\* the return statement of AcceptAll.SelectTxs
AcceptAllReturn(txs, hashes) ==
  [txs |-> txs, hashes |-> hashes, invalid |-> NilSlice, err |-> NilErr]

\* variant: the loop body puts the new entry in front
AcceptAllBody_Prepends(lists, tx) ==
  [lists EXCEPT !.txs = [isNil |-> FALSE, elems |-> <<tx.Transaction>> \o @.elems],
                !.hashes = [isNil |-> FALSE, elems |-> <<Hash(tx.Transaction)>> \o @.elems]]

\* one pass of the body of the range loop of AcceptAll.SelectTxs
AcceptAllBody(lists, tx) ==
  [lists EXCEPT !.txs = GoAppend(@, tx.Transaction),
                !.hashes = GoAppend(@, Hash(tx.Transaction))]

\* the three lists a call is accumulating
Lists(c) ==
  [txs |-> selectedTxs[c], hashes |-> selectedTxsHashes[c], invalid |-> invalidTxsHashes[c]]

SetLists(c, lists) ==
  /\ selectedTxs' = [selectedTxs EXCEPT ![c] = lists.txs]
  /\ selectedTxsHashes' = [selectedTxsHashes EXCEPT ![c] = lists.hashes]
  /\ invalidTxsHashes' = [invalidTxsHashes EXCEPT ![c] = lists.invalid]

\* entry of AcceptAll.SelectTxs: the two make() calls; an empty range loop
\* falls through to the return
AcceptAllSelectTxs(c) ==
  /\ pc[c] = "ready"
  /\ selector[c].kind = "AcceptAll"
  /\ \E pending \in PendingInputs :
       /\ pendingTxs' = [pendingTxs EXCEPT ![c] = pending]
       /\ SetLists(c, [txs |-> MakeSlice, hashes |-> MakeSlice, invalid |-> NilSlice])
       /\ IF Len(pending) = 0
            THEN /\ pc' = [pc EXCEPT ![c] = "returned"]
                 /\ ret' = [ret EXCEPT ![c] = AcceptAllReturn(MakeSlice, MakeSlice)]
            ELSE /\ pc' = [pc EXCEPT ![c] = "acceptloop"]
                 /\ ret' = ret
  /\ idx' = [idx EXCEPT ![c] = 1]
  /\ appliedAtCall' = [appliedAtCall EXCEPT ![c] = applied]
  /\ UNCHANGED <<selector, cfgType, sortedTxs, submitted, applied, answers>>

\* variant: the pass-through loop hands every transaction to the processor
AcceptAllIterate_Processes(c) ==
  /\ pc[c] = "acceptloop"
  /\ LET lists == AcceptAllBody(Lists(c), pendingTxs[c][idx[c]])
         t == pendingTxs[c][idx[c]].Transaction
     IN /\ SetLists(c, lists)
        /\ idx' = [idx EXCEPT ![c] = @ + 1]
        /\ applied' = ProcessTransaction(applied, t, [Err |-> NilErr])
        /\ submitted' = [submitted EXCEPT ![c] = Append(@, [tx |-> t, result |-> [Err |-> NilErr]])]
        /\ IF idx[c] = Len(pendingTxs[c])
             THEN /\ pc' = [pc EXCEPT ![c] = "returned"]
                  /\ ret' = [ret EXCEPT ![c] = AcceptAllReturn(lists.txs, lists.hashes)]
             ELSE UNCHANGED <<pc, ret>>
  /\ UNCHANGED <<selector, cfgType, pendingTxs, sortedTxs, appliedAtCall, answers>>

\* one iteration of the loop of AcceptAll.SelectTxs; the last one returns
AcceptAllIterate(c) ==
  /\ pc[c] = "acceptloop"
  /\ LET lists == AcceptAllBody(Lists(c), pendingTxs[c][idx[c]])
     IN /\ SetLists(c, lists)
        /\ idx' = [idx EXCEPT ![c] = @ + 1]
        /\ IF idx[c] = Len(pendingTxs[c])
             THEN /\ pc' = [pc EXCEPT ![c] = "returned"]
                  /\ ret' = [ret EXCEPT ![c] = AcceptAllReturn(lists.txs, lists.hashes)]
             ELSE UNCHANGED <<pc, ret>>
  /\ UNCHANGED <<selector, cfgType, pendingTxs, sortedTxs, submitted, applied, appliedAtCall, answers>>

\* ---------------------------------------------------------------- Base.SelectTxs
\* variant: the chain has no cumulative-gas branch
Classify_NoGasBranch(err) ==
  IF err.msg \in InvalidTxErrors THEN "invalid"
  ELSE IF NonceAhead \in err.is THEN "deferred"
  ELSE "fatal"

\* variant: the chain tests the two sentinels before the invalid set
Classify_SentinelsFirst(err) ==
  IF NonceAhead \in err.is THEN "deferred"
  ELSE IF CumGas \in err.is THEN "capacity"
  ELSE IF err.msg \in InvalidTxErrors THEN "invalid"
  ELSE "fatal"

\* the if/else-if chain on a failed result
Classify(err) ==
  IF err.msg \in InvalidTxErrors THEN "invalid"
  ELSE IF NonceAhead \in err.is THEN "deferred"
  ELSE IF CumGas \in err.is THEN "capacity"
  ELSE "fatal"

\* the class of any result
ClassOf(result) == IF Failed(result) THEN Classify(result.Err) ELSE "success"

\* variant: the else branch forgets the hash
OnSuccess_NoHash(lists, t) ==
  [lists EXCEPT !.txs = GoAppend(@, t)]

\* variant: the else branch puts the new entry in front
OnSuccess_Prepends(lists, t) ==
  [lists EXCEPT !.txs = [isNil |-> FALSE, elems |-> <<t>> \o @.elems],
                !.hashes = [isNil |-> FALSE, elems |-> <<Hash(t)>> \o @.elems]]

\* the else branch: the transaction and its hash are appended
OnSuccess(lists, t) ==
  [lists EXCEPT !.txs = GoAppend(@, t), !.hashes = GoAppend(@, Hash(t))]

\* variant: the invalid branch records nothing
OnInvalid_Dropped(lists, tx) == lists

\* variant: the invalid branch falls through to the selection as well
OnInvalid_AlsoSelected(lists, tx) ==
  [lists EXCEPT !.txs = GoAppend(@, tx.Transaction),
                !.hashes = GoAppend(@, Hash(tx.Transaction)),
                !.invalid = GoAppend(@, Hash(tx.Transaction))]

\* variant: the invalid branch puts the hash in front
OnInvalid_Prepends(lists, tx) ==
  [lists EXCEPT !.invalid = [isNil |-> FALSE, elems |-> <<Hash(tx.Transaction)>> \o @.elems]]

\* the invalid branch: the hash is appended to invalidTxsHashes
OnInvalid(lists, tx) ==
  [lists EXCEPT !.invalid = GoAppend(@, Hash(tx.Transaction))]

\* variant: the nonce-ahead branch records the hash as invalid
OnDeferred_Recorded(lists, tx) ==
  [lists EXCEPT !.invalid = GoAppend(@, Hash(tx.Transaction))]

\* the nonce-ahead branch: continue
OnDeferred(lists, tx) == lists

\* variant: the cumulative-gas branch returns nothing
CapacityReturn_Discards(lists) ==
  [txs |-> NilSlice, hashes |-> NilSlice, invalid |-> NilSlice, err |-> NilErr]

\* the cumulative-gas branch: return what was accumulated, nil error
CapacityReturn(lists) ==
  [txs |-> lists.txs, hashes |-> lists.hashes, invalid |-> lists.invalid, err |-> NilErr]

\* variant: the last branch returns the accumulated lists with the error
FatalReturn_KeepsLists(lists, err) ==
  [txs |-> lists.txs, hashes |-> lists.hashes, invalid |-> lists.invalid, err |-> err]

\* the last branch: return nil, nil, nil, err
FatalReturn(lists, err) ==
  [txs |-> NilSlice, hashes |-> NilSlice, invalid |-> NilSlice, err |-> err]

\* the return after the loop
FinalReturn(lists) ==
  [txs |-> lists.txs, hashes |-> lists.hashes, invalid |-> lists.invalid, err |-> NilErr]

\* the lists after the loop body has handled a result that keeps the loop going
NextLists(lists, tx, result) ==
  CASE ClassOf(result) = "success" -> OnSuccess(lists, tx.Transaction)
    [] ClassOf(result) = "invalid" -> OnInvalid(lists, tx)
    [] OTHER -> OnDeferred(lists, tx)

\* variant: the loop walks sortedTxs from its end
RangeAt_Backwards(sorted, i) == sorted[Len(sorted) + 1 - i]

\* the element the range loop over sortedTxs hands to its i-th iteration
RangeAt(sorted, i) == sorted[i]

\* variant: a fatal result makes the selector put the processor back to the
\* batch it had when the call was entered
BatchAfter_RollsBack(batch, atCall, t, result) ==
  IF ClassOf(result) = "fatal" THEN atCall ELSE ProcessTransaction(batch, t, result)

\* the processor's batch after an iteration: the selector does nothing to the
\* processor but call ProcessTransaction
BatchAfter(batch, atCall, t, result) == ProcessTransaction(batch, t, result)

\* variant: the entry ranges over pendingTxs as handed in, without sorting
BaseSelectTxs_Unsorted(c) ==
  /\ pc[c] = "ready"
  /\ selector[c].kind = "Base"
  /\ \E pending \in PendingInputs :
       /\ pendingTxs' = [pendingTxs EXCEPT ![c] = pending]
       /\ IF selector[c].TxSorter = NilSorter
            THEN /\ pc' = [pc EXCEPT ![c] = "panic"]
                 /\ UNCHANGED <<sortedTxs, ret>>
            ELSE /\ sortedTxs' = [sortedTxs EXCEPT ![c] = pending]
                 /\ IF Len(pending) = 0
                      THEN /\ pc' = [pc EXCEPT ![c] = "returned"]
                           /\ ret' = [ret EXCEPT ![c] = FinalReturn(Lists(c))]
                      ELSE /\ pc' = [pc EXCEPT ![c] = "loop"]
                           /\ ret' = ret
  /\ idx' = [idx EXCEPT ![c] = 1]
  /\ appliedAtCall' = [appliedAtCall EXCEPT ![c] = applied]
  /\ UNCHANGED <<selector, cfgType, selectedTxs, selectedTxsHashes, invalidTxsHashes,
                 submitted, applied, answers>>

\* entry of Base.SelectTxs: SortTxs on the configured sorter (a nil sorter
\* panics); an empty range loop falls through to the return
BaseSelectTxs(c) ==
  /\ pc[c] = "ready"
  /\ selector[c].kind = "Base"
  /\ \E pending \in PendingInputs :
       /\ pendingTxs' = [pendingTxs EXCEPT ![c] = pending]
       /\ IF selector[c].TxSorter = NilSorter
            THEN /\ pc' = [pc EXCEPT ![c] = "panic"]
                 /\ UNCHANGED <<sortedTxs, ret>>
            ELSE LET sorted == SortTxs(selector[c].TxSorter, pending) IN
                   /\ sortedTxs' = [sortedTxs EXCEPT ![c] = sorted]
                   /\ IF Len(sorted) = 0
                        THEN /\ pc' = [pc EXCEPT ![c] = "returned"]
                             /\ ret' = [ret EXCEPT ![c] = FinalReturn(Lists(c))]
                        ELSE /\ pc' = [pc EXCEPT ![c] = "loop"]
                             /\ ret' = ret
  /\ idx' = [idx EXCEPT ![c] = 1]
  /\ appliedAtCall' = [appliedAtCall EXCEPT ![c] = applied]
  /\ UNCHANGED <<selector, cfgType, selectedTxs, selectedTxsHashes, invalidTxsHashes,
                 submitted, applied, answers>>

\* one iteration of the loop of Base.SelectTxs: the transaction at idx is
\* handed to the processor and its result is classified; the iteration that
\* ends the loop returns
BaseIterate(c) ==
  /\ pc[c] = "loop"
  /\ LET tx == RangeAt(sortedTxs[c], idx[c])
         t == tx.Transaction
     IN \E result \in answers[t] :
          /\ applied' = BatchAfter(applied, appliedAtCall[c], t, result)
          /\ submitted' = [submitted EXCEPT ![c] = Append(@, [tx |-> t, result |-> result])]
          /\ CASE ClassOf(result) = "capacity" ->
                    /\ pc' = [pc EXCEPT ![c] = "returned"]
                    /\ ret' = [ret EXCEPT ![c] = CapacityReturn(Lists(c))]
                    /\ UNCHANGED <<idx, selectedTxs, selectedTxsHashes, invalidTxsHashes>>
               [] ClassOf(result) = "fatal" ->
                    /\ pc' = [pc EXCEPT ![c] = "returned"]
                    /\ ret' = [ret EXCEPT ![c] = FatalReturn(Lists(c), result.Err)]
                    /\ UNCHANGED <<idx, selectedTxs, selectedTxsHashes, invalidTxsHashes>>
               [] OTHER ->
                    LET lists == NextLists(Lists(c), tx, result)
                    IN /\ SetLists(c, lists)
                       /\ idx' = [idx EXCEPT ![c] = @ + 1]
                       /\ IF idx[c] = Len(sortedTxs[c])
                            THEN /\ pc' = [pc EXCEPT ![c] = "returned"]
                                 /\ ret' = [ret EXCEPT ![c] = FinalReturn(lists)]
                            ELSE UNCHANGED <<pc, ret>>
  /\ UNCHANGED <<selector, cfgType, pendingTxs, sortedTxs, appliedAtCall, answers>>

\* ---------------------------------------------------------------- specification
Step(c) ==
  \/ NewTxSelectorAcceptAll(c)
  \/ NewTxSelectorBase(c)
  \/ AcceptAllSelectTxs(c)
  \/ AcceptAllIterate(c)
  \/ BaseSelectTxs(c)
  \/ BaseIterate(c)

Next == \E c \in SeqCalls : Step(c)

Spec == Init /\ [][Next]_vars

\* ---------------------------------------------------------------- re-running a selection
\* one result of each class
StatelessResults ==
  { [Err |-> NilErr],
    [Err |-> [msg |-> "invalid transaction", is |-> {}]],
    [Err |-> ErrNonceIsBiggerThanAccountNonce],
    [Err |-> ErrInvalidCumulativeGas],
    [Err |-> [msg |-> "unexpected A", is |-> {}]] }

Reverse(s) == [i \in 1..Len(s) |-> s[Len(s) + 1 - i]]

\* a processor that answers with one result of each class
InitRerun ==
  /\ InitCalls
  /\ answers = [t \in Txs |-> StatelessResults]

\* the first run: a Base selector with one of the two sorters
RerunNewFirst ==
  /\ NewTxSelectorBase("c1")
  /\ cfgType'["c1"] \in {ByCostAndTime, ByCostAndNonce}

\* the second run starts after the first has returned, with the same sorter
RerunNewSecond ==
  /\ pc["c1"] = "returned"
  /\ NewTxSelectorBase("c2")
  /\ cfgType'["c2"] = cfgType["c1"]

\* the second run gets the same pending set, in the same or the opposite order
RerunSelectSecond ==
  /\ BaseSelectTxs("c2")
  /\ pendingTxs'["c2"] \in {pendingTxs["c1"], Reverse(pendingTxs["c1"])}

\* the processor has no side effects: a transaction it answered in the first
\* run gets the same answer in the second
RerunIterateSecond ==
  /\ BaseIterate("c2")
  /\ LET last == submitted'["c2"][Len(submitted'["c2"])]
     IN \A i \in 1..Len(submitted["c1"]) :
          submitted["c1"][i].tx = last.tx => submitted["c1"][i].result = last.result

NextRerun ==
  \/ RerunNewFirst
  \/ BaseSelectTxs("c1")
  \/ BaseIterate("c1")
  \/ RerunNewSecond
  \/ RerunSelectSecond
  \/ RerunIterateSecond

SpecRerun == InitRerun /\ [][NextRerun]_vars

\* ---------------------------------------------------------------- two calls on one processor
\* the answers of the shared processor: accepted, rejected as invalid, batch full
ConcResults ==
  { [Err |-> NilErr],
    [Err |-> [msg |-> "invalid transaction", is |-> {}]],
    [Err |-> ErrInvalidCumulativeGas] }

InitConc ==
  /\ InitCalls
  /\ answers = [t \in Txs |-> ConcResults]

\* either caller builds a Base selector that sorts by cost and nonce
ConcNew(c) ==
  /\ NewTxSelectorBase(c)
  /\ cfgType'[c] = ByCostAndNonce

\* either caller hands over at most two pending transactions
ConcSelect(c) ==
  /\ BaseSelectTxs(c)
  /\ Len(pendingTxs'[c]) <= 2

\* the iterations of the two calls interleave: nothing in SelectTxs locks the
\* processor
NextConc ==
  \E c \in Calls :
    \/ ConcNew(c)
    \/ ConcSelect(c)
    \/ BaseIterate(c)

SpecConc == InitConc /\ [][NextConc]_vars

TypeOK ==
  /\ \A c \in Calls : pc[c] \in {"new", "ready", "acceptloop", "loop", "returned", "panic"}
  /\ \A c \in Calls : idx[c] \in 1..(NumTxs + 1)

\* ---------------------------------------------------------------- properties
IsBase(c) == selector[c].kind = "Base"
IsAcceptAll(c) == selector[c].kind = "AcceptAll"
Returned(c) == pc[c] = "returned"

\* how the claims name the errors of a failed result
InInvalidSet(e) == e.msg \in InvalidTxErrors
IsNonceAhead(e) == NonceAhead \in e.is /\ ~InInvalidSet(e)
IsGasExceeded(e) == CumGas \in e.is /\ NonceAhead \notin e.is /\ ~InInvalidSet(e)
IsUnclassified(e) ==
  e # NilErr /\ ~InInvalidSet(e) /\ NonceAhead \notin e.is /\ CumGas \notin e.is

Count(seq, x) == Cardinality({ i \in 1..Len(seq) : seq[i] = x })
HashesOf(txs) == [i \in 1..Len(txs) |-> Hash(txs[i])]

\* the transactions the processor accepted, and the hashes of those it
\* rejected as invalid, among the first n submissions of call c
AcceptedIn(c, n) ==
  LET s == SelectSeq(SubSeq(submitted[c], 1, n), LAMBDA e : e.result.Err = NilErr)
  IN [i \in 1..Len(s) |-> s[i].tx]
RejectedIn(c, n) ==
  LET s == SelectSeq(SubSeq(submitted[c], 1, n), LAMBDA e : InInvalidSet(e.result.Err))
  IN [i \in 1..Len(s) |-> Hash(s[i].tx)]

\* the submission at position i did not stop the loop: either the loop stands
\* at position i+1, or a later submission was made, or position i was the
\* last one and the call returned normally
LoopWentOn(c, i) ==
  /\ i < Len(submitted[c]) =>
       submitted[c][i + 1].tx = sortedTxs[c][i + 1].Transaction
  /\ i = Len(submitted[c]) =>
       \/ pc[c] = "loop" /\ idx[c] = i + 1 /\ i < Len(sortedTxs[c])
       \/ Returned(c) /\ i = Len(sortedTxs[c]) /\ ret[c].err = NilErr

\* C1: in Base.SelectTxs, when the processor answers the transaction at
\* sorted position k with the cumulative-gas-exceeded error, the call has
\* returned with a nil error and exactly the transactions, hashes and invalid
\* hashes of positions before k; the transaction at k is in no list and no
\* position after k was ever submitted.
C1_CapacityStop ==
  \A c \in Calls : \A k \in 1..Len(submitted[c]) :
    (IsBase(c) /\ IsGasExceeded(submitted[c][k].result.Err)) =>
      /\ submitted[c][k].tx = sortedTxs[c][k].Transaction
      /\ k = Len(submitted[c])
      /\ Returned(c)
      /\ ret[c].err = NilErr
      /\ ret[c].txs.elems = AcceptedIn(c, k - 1)
      /\ ret[c].hashes.elems = HashesOf(AcceptedIn(c, k - 1))
      /\ ret[c].invalid.elems = RejectedIn(c, k - 1)
      /\ \A i \in 1..Len(ret[c].txs.elems) : ret[c].txs.elems[i] # submitted[c][k].tx
      /\ Count(ret[c].hashes.elems, Hash(submitted[c][k].tx)) = 0
      /\ Count(ret[c].invalid.elems, Hash(submitted[c][k].tx)) = 0

\* a call stopped by gas at position 2 after a success, one transaction left
C1_Witness ==
  \E c \in Calls :
    /\ IsBase(c) /\ Returned(c)
    /\ Len(submitted[c]) = 2 /\ Len(sortedTxs[c]) = 3
    /\ submitted[c][1].result.Err = NilErr
    /\ IsGasExceeded(submitted[c][2].result.Err)
    /\ GoLen(ret[c].txs) = 1

\* C2: in Base.SelectTxs, when the processor answers with an error that is
\* neither in the invalid set nor nonce-ahead nor cumulative-gas-exceeded, the
\* call has returned (nil, nil, nil, err) with that very error, whatever was
\* accumulated before, and no later transaction was submitted.
C2_FatalAbort ==
  \A c \in Calls : \A k \in 1..Len(submitted[c]) :
    (IsBase(c) /\ IsUnclassified(submitted[c][k].result.Err)) =>
      /\ k = Len(submitted[c])
      /\ Returned(c)
      /\ ret[c].err = submitted[c][k].result.Err
      /\ ret[c].txs = NilSlice
      /\ ret[c].hashes = NilSlice
      /\ ret[c].invalid = NilSlice

\* a fatal error at position 3 after one success and one invalid rejection
C2_Witness ==
  \E c \in Calls :
    /\ IsBase(c) /\ Returned(c)
    /\ Len(submitted[c]) = 3
    /\ IsUnclassified(submitted[c][3].result.Err)
    /\ GoLen(selectedTxs[c]) = 1 /\ GoLen(invalidTxsHashes[c]) = 1
    /\ ret[c].err = submitted[c][3].result.Err

\* C3: in Base.SelectTxs, a transaction whose error is in the invalid set is
\* never in selectedTxs or selectedTxsHashes (accumulated or returned); when
\* the call does not end in a fatal abort its hash is exactly once in
\* invalidTxsHashes; and the loop goes on with the next transaction.
C3_InvalidRecorded ==
  \A c \in Calls : \A k \in 1..Len(submitted[c]) :
    (IsBase(c) /\ InInvalidSet(submitted[c][k].result.Err)) =>
      LET t == submitted[c][k].tx IN
      /\ Count(selectedTxs[c].elems, t) = 0
      /\ Count(selectedTxsHashes[c].elems, Hash(t)) = 0
      /\ Count(ret[c].txs.elems, t) = 0
      /\ Count(ret[c].hashes.elems, Hash(t)) = 0
      /\ Count(invalidTxsHashes[c].elems, Hash(t)) = 1
      /\ (Returned(c) /\ ret[c].err = NilErr) => Count(ret[c].invalid.elems, Hash(t)) = 1
      /\ LoopWentOn(c, k)

\* an invalid rejection at position 1 of a call that went on and returned
\* normally
C3_Witness ==
  \E c \in Calls :
    /\ IsBase(c) /\ Returned(c) /\ ret[c].err = NilErr
    /\ Len(submitted[c]) >= 2
    /\ InInvalidSet(submitted[c][1].result.Err)
    /\ submitted[c][2].result.Err = NilErr
    /\ ret[c].invalid.elems = <<Hash(submitted[c][1].tx)>>

\* C4: in Base.SelectTxs, a transaction answered with nonce-ahead is in
\* neither the selected lists nor invalidTxsHashes, and the loop goes on to
\* submit the next transaction of the sorted order.
C4_DeferredSkipped ==
  \A c \in Calls : \A k \in 1..Len(submitted[c]) :
    (IsBase(c) /\ IsNonceAhead(submitted[c][k].result.Err)) =>
      LET t == submitted[c][k].tx IN
      /\ Count(selectedTxs[c].elems, t) = 0
      /\ Count(selectedTxsHashes[c].elems, Hash(t)) = 0
      /\ Count(invalidTxsHashes[c].elems, Hash(t)) = 0
      /\ Count(ret[c].txs.elems, t) = 0
      /\ Count(ret[c].hashes.elems, Hash(t)) = 0
      /\ Count(ret[c].invalid.elems, Hash(t)) = 0
      /\ LoopWentOn(c, k)

\* a nonce-ahead answer at position 1 followed by the submission of position 2
C4_Witness ==
  \E c \in Calls :
    /\ IsBase(c)
    /\ Len(submitted[c]) >= 2
    /\ IsNonceAhead(submitted[c][1].result.Err)
    /\ submitted[c][2].tx = sortedTxs[c][2].Transaction
    /\ submitted[c][2].result.Err = NilErr

\* C5: AcceptAll.SelectTxs returns, for every pending slice, the transaction
\* of every entry in input order, the hashes of the entries in the same
\* order, an empty invalid list and a nil error.
C5_AcceptAllCopiesInput ==
  \A c \in Calls :
    (IsAcceptAll(c) /\ Returned(c)) =>
      /\ GoLen(ret[c].txs) = Len(pendingTxs[c])
      /\ GoLen(ret[c].hashes) = Len(pendingTxs[c])
      /\ \A i \in 1..Len(pendingTxs[c]) :
           /\ ret[c].txs.elems[i] = pendingTxs[c][i].Transaction
           /\ ret[c].hashes.elems[i] = Hash(pendingTxs[c][i].Transaction)
      /\ GoLen(ret[c].invalid) = 0
      /\ ret[c].err = NilErr

\* a pass-through call on three pending transactions that are not in
\* ascending order
C5_Witness ==
  \E c \in Calls :
    /\ IsAcceptAll(c) /\ Returned(c)
    /\ Len(pendingTxs[c]) = 3
    /\ pendingTxs[c][1].Transaction > pendingTxs[c][2].Transaction
    /\ GoLen(ret[c].txs) = 3

\* C6: when every submission of a Base.SelectTxs call succeeded, the returned
\* selected list is the sorter's output element for element, the returned
\* hashes are the hashes of that sequence, the invalid list is empty and the
\* error is nil.
C6_AllSuccessIsSorted ==
  \A c \in Calls :
    (/\ IsBase(c) /\ Returned(c)
     /\ \A i \in 1..Len(submitted[c]) : submitted[c][i].result.Err = NilErr) =>
      /\ ret[c].txs.elems = [i \in 1..Len(sortedTxs[c]) |-> sortedTxs[c][i].Transaction]
      /\ ret[c].hashes.elems =
           [i \in 1..Len(sortedTxs[c]) |-> Hash(sortedTxs[c][i].Transaction)]
      /\ GoLen(ret[c].invalid) = 0
      /\ ret[c].err = NilErr

\* three successes on a sorted order that differs from the pending order
C6_Witness ==
  \E c \in Calls :
    /\ IsBase(c) /\ Returned(c)
    /\ Len(submitted[c]) = 3
    /\ \A i \in 1..3 : submitted[c][i].result.Err = NilErr
    /\ sortedTxs[c] # pendingTxs[c]
    /\ GoLen(ret[c].txs) = 3

\* the call of c ended in a fatal abort: its last submission was answered
\* with an unclassified error
FatalAbort(c) ==
  /\ IsBase(c)
  /\ Len(submitted[c]) > 0
  /\ IsUnclassified(submitted[c][Len(submitted[c])].result.Err)

\* C7: a returned call of either variant has a non-nil error exactly when it
\* ended in a fatal abort; a non-nil error comes with three empty lists.
C7_ErrorOnlyOnFatal ==
  \A c \in Calls :
    Returned(c) =>
      /\ (ret[c].err # NilErr) <=> FatalAbort(c)
      /\ (ret[c].err # NilErr) =>
           GoLen(ret[c].txs) = 0 /\ GoLen(ret[c].hashes) = 0 /\ GoLen(ret[c].invalid) = 0

\* a call stopped by gas that returns a nil error with results
C7_Witness ==
  \E c \in Calls :
    /\ IsBase(c) /\ Returned(c)
    /\ Len(submitted[c]) = 2
    /\ IsGasExceeded(submitted[c][2].result.Err)
    /\ ret[c].err = NilErr
    /\ GoLen(ret[c].txs) = 1

Aligned(txs, hashes) ==
  /\ GoLen(txs) = GoLen(hashes)
  /\ \A i \in 1..GoLen(txs) : hashes.elems[i] = Hash(txs.elems[i])

\* C8: at every loop boundary and in every output of either variant,
\* selectedTxs and selectedTxsHashes have the same length and the i-th hash
\* is the hash of the i-th transaction.
C8_SelectedAligned ==
  \A c \in Calls :
    /\ Aligned(selectedTxs[c], selectedTxsHashes[c])
    /\ Aligned(ret[c].txs, ret[c].hashes)

\* a returned call with one selected transaction and two invalid hashes
C8_Witness ==
  \E c \in Calls :
    /\ IsBase(c) /\ Returned(c)
    /\ GoLen(ret[c].txs) = 1 /\ GoLen(ret[c].hashes) = 1
    /\ GoLen(ret[c].invalid) = 2

\* C9: no hash is in both the selected hashes and the invalid hashes that
\* Base.SelectTxs returns.
C9_DisjointHashes ==
  \A c \in Calls :
    (IsBase(c) /\ Returned(c)) =>
      \A i \in 1..GoLen(ret[c].hashes) : \A j \in 1..GoLen(ret[c].invalid) :
        ret[c].hashes.elems[i] # ret[c].invalid.elems[j]

\* a returned call with both lists non-empty
C9_Witness ==
  \E c \in Calls :
    /\ IsBase(c) /\ Returned(c)
    /\ GoLen(ret[c].hashes) = 2
    /\ GoLen(ret[c].invalid) = 1

\* C10: NewTxSelectorBase with a sorter type that is neither ByCostAndTime
\* nor ByCostAndNonce fails: it hands out no selector.
C10_UnrecognizedTypeFails ==
  \A c \in Calls :
    (pc[c] # "new" /\ cfgType[c] \notin {ByCostAndTime, ByCostAndNonce, "unset"}) =>
      selector[c] = NoSelector

\* C11: two runs of Base.SelectTxs on the same pending set with the same
\* sorter, against a processor whose answer to a transaction is fixed, return
\* the same selected list, selected hashes, invalid hashes and error.
C11_RerunSameOutput ==
  (Returned("c1") /\ Returned("c2")) => ret["c1"] = ret["c2"]

\* two finished runs on three transactions handed over in opposite orders,
\* with a transaction selected and one rejected
C11_Witness ==
  /\ Returned("c1") /\ Returned("c2")
  /\ Len(pendingTxs["c1"]) = 3
  /\ pendingTxs["c2"] = Reverse(pendingTxs["c1"])
  /\ GoLen(ret["c2"].txs) >= 1
  /\ GoLen(ret["c2"].invalid) >= 1

\* C12: within one Base.SelectTxs call the submissions to the processor are a
\* prefix of the sorter's output: the i-th submission is the transaction at
\* sorted position i, the loop stands right behind the last submission, and
\* no transaction is submitted twice.
C12_SubmissionsArePrefix ==
  \A c \in Calls :
    IsBase(c) =>
      /\ Len(submitted[c]) <= Len(sortedTxs[c])
      /\ \A i \in 1..Len(submitted[c]) : submitted[c][i].tx = sortedTxs[c][i].Transaction
      /\ pc[c] = "loop" => Len(submitted[c]) = idx[c] - 1
      /\ \A i \in 1..Len(submitted[c]) : \A j \in 1..Len(submitted[c]) :
           i # j => submitted[c][i].tx # submitted[c][j].tx

\* a call standing in its loop after two submissions, the third to come, on a
\* sorted order that is not the pending order
C12_Witness ==
  \E c \in Calls :
    /\ IsBase(c) /\ pc[c] = "loop"
    /\ Len(submitted[c]) = 2 /\ idx[c] = 3 /\ Len(sortedTxs[c]) = 3
    /\ sortedTxs[c] # pendingTxs[c]
    /\ sortedTxs[c] # Reverse(sortedTxs[c])

RECURSIVE IsSubseq(_, _)
\* a is b with some elements left out
IsSubseq(a, b) ==
  IF Len(a) = 0 THEN TRUE
  ELSE IF Len(b) = 0 THEN FALSE
  ELSE IF a[1] = b[1] THEN IsSubseq(Tail(a), Tail(b))
  ELSE IsSubseq(a, Tail(b))

\* what the processor applied since call c was entered
AppliedSince(c) == SubSeq(applied, Len(appliedAtCall[c]) + 1, Len(applied))

LastErr(c) == submitted[c][Len(submitted[c])].result.Err
StopsLoop(e) == IsGasExceeded(e) \/ IsUnclassified(e)
ExhaustedPool(c) ==
  /\ Returned(c) /\ ret[c].err = NilErr
  /\ Len(submitted[c]) = Len(pendingTxs[c])
  /\ Len(submitted[c]) > 0 => ~StopsLoop(LastErr(c))
CapacityReached(c) ==
  /\ Returned(c) /\ ret[c].err = NilErr
  /\ Len(submitted[c]) > 0 /\ IsGasExceeded(LastErr(c))
Fatal(c) ==
  /\ Returned(c) /\ ret[c].err # NilErr
  /\ Len(submitted[c]) > 0 /\ IsUnclassified(LastErr(c))

\* call c, once entered, made at most n submissions and is either still in
\* its loop with no stopping result behind it, or has ended in exactly one of
\* the three outcomes
BoundedAndClassified(c) ==
  /\ Len(submitted[c]) <= Len(pendingTxs[c])
  /\ \A i \in 1..(Len(submitted[c]) - 1) : ~StopsLoop(submitted[c][i].result.Err)
  /\ \/ /\ pc[c] = "loop"
        /\ Len(submitted[c]) < Len(pendingTxs[c])
        /\ Len(submitted[c]) > 0 => ~StopsLoop(LastErr(c))
     \/ /\ Returned(c)
        /\ Cardinality({ o \in {"exhausted", "capacity", "fatal"} :
                          \/ o = "exhausted" /\ ExhaustedPool(c)
                          \/ o = "capacity" /\ CapacityReached(c)
                          \/ o = "fatal" /\ Fatal(c) }) = 1

\* C14: every Base.SelectTxs call on n pending transactions makes at most n
\* submissions and ends in exactly one of exhausted-pool, capacity-reached
\* and fatal; without a gas-exceeded or fatal result the loop does not stop
\* before all n are submitted.
C14_ThreeOutcomes ==
  \A c \in Calls :
    (IsBase(c) /\ pc[c] \notin {"new", "ready"}) => BoundedAndClassified(c)

\* the same, restricted to selectors whose sorter is set
ThreeOutcomesWithSorter ==
  \A c \in Calls :
    (IsBase(c) /\ pc[c] \notin {"new", "ready"} /\ selector[c].TxSorter # NilSorter) =>
      BoundedAndClassified(c)

SortedHashes(c) == [i \in 1..Len(sortedTxs[c]) |-> Hash(sortedTxs[c][i].Transaction)]
IsPrefix(a, b) == Len(a) <= Len(b) /\ a = SubSeq(b, 1, Len(a))

\* the hash lists of c, accumulated and returned, keep the sorted order
InSortedOrder(c) ==
  /\ IsSubseq(selectedTxsHashes[c].elems, SortedHashes(c))
  /\ IsSubseq(invalidTxsHashes[c].elems, SortedHashes(c))
  /\ (Returned(c) /\ ret[c].err = NilErr) =>
       /\ IsSubseq(ret[c].hashes.elems, SortedHashes(c))
       /\ IsSubseq(ret[c].invalid.elems, SortedHashes(c))

\* a step of the loop of c only appends to the three lists
OnlyAppends(c) ==
  pc[c] = "loop" =>
    /\ IsPrefix(selectedTxs[c].elems, selectedTxs'[c].elems)
    /\ IsPrefix(selectedTxsHashes[c].elems, selectedTxsHashes'[c].elems)
    /\ IsPrefix(invalidTxsHashes[c].elems, invalidTxsHashes'[c].elems)

\* C15: in Base.SelectTxs the selected hashes and the invalid hashes are each
\* a subsequence of the hashes of the sorter's output, in every non-fatal
\* output and while the loop runs, and a step of the loop only appends to the
\* lists.
C15_ListsKeepSortedOrder ==
  /\ [](\A c \in Calls : IsBase(c) => InSortedOrder(c))
  /\ [][\A c \in Calls : IsBase(c) => OnlyAppends(c)]_vars

\* a normal return where the selected hashes are those of sorted positions 1
\* and 3 and the invalid hash is that of position 2
C15_Witness ==
  \E c \in Calls :
    /\ IsBase(c) /\ Returned(c) /\ ret[c].err = NilErr
    /\ Len(sortedTxs[c]) = 3
    /\ ret[c].hashes.elems = <<SortedHashes(c)[1], SortedHashes(c)[3]>>
    /\ ret[c].invalid.elems = <<SortedHashes(c)[2]>>

\* a step of a pass-through call leaves the processor and, once the argument
\* is bound, the pending slice alone
PassThroughFrame(c) ==
  (IsAcceptAll(c) /\ pc[c] \in {"ready", "acceptloop"}) =>
    /\ applied' = applied
    /\ submitted'[c] = submitted[c]
    /\ pc[c] = "acceptloop" => pendingTxs'[c] = pendingTxs[c]

\* C16: AcceptAll.SelectTxs never calls ProcessTransaction: from entry to
\* return the processor's batch is what it was at entry, no submission is
\* logged, and the pending slice is not modified.
C16_PassThroughTouchesNothing ==
  /\ [](\A c \in Calls :
          (IsAcceptAll(c) /\ pc[c] \in {"acceptloop", "returned"}) =>
            applied = appliedAtCall[c] /\ submitted[c] = <<>>)
  /\ [][\A c \in Calls : PassThroughFrame(c)]_vars

\* a pass-through call on three transactions has returned and the processor
\* still holds only the transaction it held before
C16_Witness ==
  \E c \in Calls :
    /\ IsAcceptAll(c) /\ Returned(c)
    /\ Len(pendingTxs[c]) = 3 /\ GoLen(ret[c].txs) = 3
    /\ appliedAtCall[c] = <<1>> /\ applied = <<1>>

\* C17: a Base.SelectTxs call that has the processor to itself and does not
\* end in a fatal abort returns, in order, exactly the transactions the
\* processor applied during the call.
C17_ReturnedIsWhatWasApplied ==
  \A c \in Calls :
    (IsBase(c) /\ Returned(c) /\ ret[c].err = NilErr) =>
      ret[c].txs.elems = AppliedSince(c)

\* a call on a processor that already held a transaction: accepted, rejected
\* as invalid, then stopped by gas
C17_Witness ==
  \E c \in Calls :
    /\ IsBase(c) /\ Returned(c) /\ ret[c].err = NilErr
    /\ appliedAtCall[c] = <<1>>
    /\ Len(submitted[c]) = 3
    /\ submitted[c][1].result.Err = NilErr
    /\ InInvalidSet(submitted[c][2].result.Err)
    /\ IsGasExceeded(submitted[c][3].result.Err)
    /\ Len(applied) = 2

\* C18: after a fatal abort the processor's batch is the batch at entry
\* extended by every transaction accepted before the fatal error, while the
\* call reports none of them.
C18_NoRollbackOnFatal ==
  \A c \in Calls :
    (Returned(c) /\ FatalAbort(c)) =>
      /\ applied = appliedAtCall[c] \o AcceptedIn(c, Len(submitted[c]))
      /\ GoLen(ret[c].txs) = 0 /\ GoLen(ret[c].hashes) = 0 /\ GoLen(ret[c].invalid) = 0

\* a fatal abort after two accepted transactions, on a processor that already
\* held one
C18_Witness ==
  \E c \in Calls :
    /\ Returned(c) /\ FatalAbort(c)
    /\ appliedAtCall[c] = <<1>>
    /\ Len(submitted[c]) = 3
    /\ Len(AcceptedIn(c, 3)) = 2
    /\ Len(applied) = 3
    /\ ret[c].txs = NilSlice

\* what call c did with the failed result at position k, read off its lists,
\* its position and its return values
TreatedAs(c, k) ==
  LET h == Hash(submitted[c][k].tx)
      last == k = Len(submitted[c])
  IN { class \in {"invalid", "deferred", "capacity", "fatal"} :
         \/ /\ class = "invalid"
            /\ Count(invalidTxsHashes[c].elems, h) = 1 /\ LoopWentOn(c, k)
         \/ /\ class = "deferred"
            /\ Count(invalidTxsHashes[c].elems, h) = 0 /\ LoopWentOn(c, k)
         \/ /\ class = "capacity"
            /\ Count(invalidTxsHashes[c].elems, h) = 0
            /\ last /\ Returned(c) /\ ret[c].err = NilErr
            /\ ret[c] = [txs |-> selectedTxs[c], hashes |-> selectedTxsHashes[c],
                         invalid |-> invalidTxsHashes[c], err |-> NilErr]
         \/ /\ class = "fatal"
            /\ last /\ Returned(c) /\ ret[c].err = submitted[c][k].result.Err }

\* the class the precedence gives an error: the invalid set first, then
\* nonce-ahead, then cumulative gas, then fatal
ByPrecedence(e) ==
  IF InInvalidSet(e) THEN "invalid"
  ELSE IF NonceAhead \in e.is THEN "deferred"
  ELSE IF CumGas \in e.is THEN "capacity"
  ELSE "fatal"

\* C19: every failed result is treated as the class the precedence invalid
\* set, nonce-ahead, cumulative gas, fatal gives it, and as no other class
\* (at the last sorted position skipping and stopping for gas are the same
\* return, so there the two are not told apart); so an error whose message
\* is in the invalid set is recorded in invalidTxsHashes and the loop goes
\* on, also when it matches a sentinel.
C19_ClassificationPrecedence ==
  \A c \in Calls : \A k \in 1..Len(submitted[c]) :
    (IsBase(c) /\ submitted[c][k].result.Err # NilErr) =>
      LET class == ByPrecedence(submitted[c][k].result.Err) IN
      /\ class \in TreatedAs(c, k)
      /\ k < Len(sortedTxs[c]) => TreatedAs(c, k) = {class}
      /\ TreatedAs(c, k) \subseteq
           (IF class \in {"deferred", "capacity"} THEN {"deferred", "capacity"} ELSE {class})

\* an error with an invalid-set message that wraps the cumulative-gas
\* sentinel was recorded as invalid and the next transaction was submitted;
\* an error wrapping both sentinels was skipped
C19_Witness ==
  \E c \in Calls :
    /\ IsBase(c) /\ Len(submitted[c]) = 3
    /\ submitted[c][1].result.Err = [msg |-> "invalid transaction", is |-> {CumGas}]
    /\ submitted[c][2].result.Err = [msg |-> "joined", is |-> {NonceAhead, CumGas}]
    /\ invalidTxsHashes[c].elems = <<Hash(submitted[c][1].tx)>>

====
